---- MODULE Spec2Model ----
(***************************************************************************)
(* A model of intx (include/intx/intx.hpp): fixed-width unsigned integers  *)
(* stored as little-endian arrays of machine words.                        *)
(*                                                                         *)
(* Scaling.  The library's word is 64 bits wide and uint256 / uint512 are  *)
(* 4 / 8 words.  The model keeps the word counts and shrinks the word to   *)
(* WordBits bits, so that a uint<N> value is a natural number below        *)
(* Base^num_words.  A uint64_t that carries a SHIFT DISTANCE (not a limb)  *)
(* is modelled with DistBits bits: the code relies on N < 2^64, and the    *)
(* model keeps that relation (N < 2^DistBits).                             *)
(***************************************************************************)
EXTENDS Integers, Sequences, FiniteSets, TLC

VARIABLES op, pc, args, res, na

vars == <<op, pc, args, res, na>>

(* ------------------------------------------------------------------ *)
(* Bounds of the model                                                 *)
(* ------------------------------------------------------------------ *)
WordBits == 2

DistBits == 5

SampleSteps == 15

(* ------------------------------------------------------------------ *)
(* Representation (intx.hpp, struct uint<N>)                           *)
(* ------------------------------------------------------------------ *)
Base == 2 ^ WordBits

WordMax == Base - 1

Word == 0 .. WordMax

\* num_words of uint128, uint256 and uint512
NumWords128 == 2

NumWords256 == 4

NumWords512 == 8

\* 2^N for a value of nw words
Mod(nw) == Base ^ nw

\* num_bits: N = sizeof(T) * 8
num_bits(nw) == nw * WordBits

\* x[i]: the i-th word, word 0 the least significant
WordAt(x, i) == (x \div (Base ^ i)) % Base

\* the value of the word array a[0 .. len-1]
RECURSIVE FromWords(_, _)
FromWords(a, len) ==
    IF len = 0 THEN 0 ELSE a[len - 1] * Base ^ (len - 1) + FromWords(a, len - 1)

\* the word array of x, indices 0 .. len-1
ToWords(x, len) == [i \in 0 .. len - 1 |-> WordAt(x, i)]

\* lo(x), hi(x): the halves of a value of nw words
lo(x, nw) == x % Mod(nw \div 2)

hi(x, nw) == x \div Mod(nw \div 2)

\* uint(high, low)
MakeUint(high, low, nw) == high * Mod(nw \div 2) + low

\* explicit operator Int(): static_cast<uint64_t>(x) keeps the low 64 bits
DistMod == 2 ^ DistBits

CastU64(x) == x % DistMod

(* ------------------------------------------------------------------ *)
(* Bitwise operators                                                   *)
(* ------------------------------------------------------------------ *)
RECURSIVE BitOr(_, _)
BitOr(a, b) ==
    IF a = 0 THEN b
    ELSE IF b = 0 THEN a
    ELSE (IF a % 2 = 1 \/ b % 2 = 1 THEN 1 ELSE 0) + 2 * BitOr(a \div 2, b \div 2)

RECURSIVE BitAnd(_, _)
BitAnd(a, b) ==
    IF a = 0 \/ b = 0 THEN 0
    ELSE (IF a % 2 = 1 /\ b % 2 = 1 THEN 1 ELSE 0) + 2 * BitAnd(a \div 2, b \div 2)

\* operator~
BitNot(x, nw) == Mod(nw) - 1 - x

(* ------------------------------------------------------------------ *)
(* Primitives of int128.hpp                                            *)
(* ------------------------------------------------------------------ *)
\* add_with_carry(x, y, carry): x + y + carry = carry_out * 2^N + value
add_with_carry(x, y, c, nw) ==
    [value |-> (x + y + c) % Mod(nw), carry |-> (x + y + c) \div Mod(nw)]

\* sub_with_carry(x, y, borrow): x - y - borrow = value - borrow_out * 2^N
sub_with_carry(x, y, b, nw) ==
    [value |-> (x - y - b) % Mod(nw), carry |-> IF x < y + b THEN 1 ELSE 0]

\* umul(uint64_t, uint64_t): the full two-word product
mul_wide(a, b) == a * b

\* uint128 << shift and uint128 >> shift, total over all distances
shl128(x, s) ==
    IF s < num_bits(NumWords128) THEN (x * 2 ^ s) % Mod(NumWords128) ELSE 0

shr128(x, s) ==
    IF s < num_bits(NumWords128) THEN x \div (2 ^ s) ELSE 0

(* ------------------------------------------------------------------ *)
(* Comparisons                                                         *)
(* ------------------------------------------------------------------ *)
\* operator==: both halves equal, down to uint128's own operator==
RECURSIVE Eq(_, _, _)
Eq(a, b, nw) ==
    IF nw <= NumWords128 THEN a = b
    ELSE Eq(lo(a, nw), lo(b, nw), nw \div 2) /\ Eq(hi(a, nw), hi(b, nw), nw \div 2)

Lt(x, y, nw) == sub_with_carry(x, y, 0, nw).carry = 1

\* operator> with the operands in the order of operator<
Gt_operands_in_order(x, y, nw) == sub_with_carry(x, y, 0, nw).carry = 1

Gt(x, y, nw) == sub_with_carry(y, x, 0, nw).carry = 1

Ge(x, y, nw) == sub_with_carry(x, y, 0, nw).carry = 0

Le(x, y, nw) == sub_with_carry(y, x, 0, nw).carry = 0

(* ------------------------------------------------------------------ *)
(* Shifts by a 64-bit distance                                         *)
(* ------------------------------------------------------------------ *)
RECURSIVE shl(_, _, _)
RECURSIVE shr(_, _, _)
\* lo_overflow with the second shift, by 1, left out
lo_overflow_one_shift(x_lo, shift, h) ==
    shr(x_lo, (num_bits(h) - shift) - 1, h)

\* the part moved from lo to hi by x << shift: (x.lo >> (rshift - 1)) >> 1 with
\* rshift = half_bits - shift, split in two because rshift is half_bits for shift = 0
lo_overflow(x_lo, shift, h) ==
    shr(shr(x_lo, (num_bits(h) - shift) - 1, h), 1, h)

\* the part moved from hi to lo by x >> shift: (x.hi << (lshift - 1)) << 1
hi_overflow(x_hi, shift, h) ==
    shl(shl(x_hi, (num_bits(h) - shift) - 1, h), 1, h)

\* operator<<(const uint<N>& x, uint64_t shift)
shl(x, shift, nw) ==
    IF nw = NumWords128 THEN shl128(x, shift)
    ELSE
    LET half_bits == num_bits(nw) \div 2
        h == nw \div 2
    IN  IF shift < half_bits
        THEN LET lo_ == shl(lo(x, nw), shift, h)
                 hi_ == BitOr(shl(hi(x, nw), shift, h), lo_overflow(lo(x, nw), shift, h))
             IN  MakeUint(hi_, lo_, nw)
        ELSE IF shift < num_bits(nw)
        THEN MakeUint(shl(lo(x, nw), shift - half_bits, h), 0, nw)
        ELSE 0

\* operator>>(const uint<N>& x, uint64_t shift)
shr(x, shift, nw) ==
    IF nw = NumWords128 THEN shr128(x, shift)
    ELSE
    LET half_bits == num_bits(nw) \div 2
        h == nw \div 2
    IN  IF shift < half_bits
        THEN LET hi_ == shr(hi(x, nw), shift, h)
                 lo_part == shr(lo(x, nw), shift, h)
                 lo_ == BitOr(lo_part, hi_overflow(hi(x, nw), shift, h))
             IN  MakeUint(hi_, lo_, nw)
        ELSE IF shift < num_bits(nw)
        THEN MakeUint(0, shr(hi(x, nw), shift - half_bits, h), nw)
        ELSE 0

(* ------------------------------------------------------------------ *)
(* Shifts by a distance of type T = uint<N>                            *)
(* ------------------------------------------------------------------ *)
\* shl_T without the comparison: the distance is truncated to its low 64 bits
shl_T_truncating(x, shift, nw) == shl(x, CastU64(shift), nw)

\* if (shift < T{sizeof(x) * 8}) return x << static_cast<uint64_t>(shift); return 0;
shl_T(x, shift, nw) ==
    IF Lt(shift, num_bits(nw), nw) THEN shl(x, CastU64(shift), nw) ELSE 0

shr_T(x, shift, nw) ==
    IF Lt(shift, num_bits(nw), nw) THEN shr(x, CastU64(shift), nw) ELSE 0

(* ------------------------------------------------------------------ *)
(* Additive layer                                                      *)
(* ------------------------------------------------------------------ *)
\* operator+
plus(x, y, nw) == add_with_carry(x, y, 0, nw).value

\* operator- (binary)
minus(x, y, nw) == sub_with_carry(x, y, 0, nw).value

\* operator- (unary): ~x + uint<N>{1}
neg(x, nw) == plus(BitNot(x, nw), 1, nw)

(* ------------------------------------------------------------------ *)
(* Multiplicative layer                                                *)
(* ------------------------------------------------------------------ *)
\* umul_low with hi(t0) in the place of lo(t0)
umul_low_hi_t0(u2, t0, nw) == BitOr(shl(u2, num_bits(nw) \div 2, nw), hi(t0, nw))

\* the low half of the product: l = (u2 << (num_bits(x) / 2)) | lo(t0)
umul_low(u2, t0, nw) == BitOr(shl(u2, num_bits(nw) \div 2, nw), lo(t0, nw))

\* umul(x, y) for x, y of nw words: the 2*nw-word product by halves
RECURSIVE umul(_, _, _)
umul(x, y, nw) ==
    IF nw = 1 THEN mul_wide(x, y)
    ELSE
    LET h  == nw \div 2
        t0 == umul(lo(x, nw), lo(y, nw), h)
        t1 == umul(hi(x, nw), lo(y, nw), h)
        t2 == umul(lo(x, nw), hi(y, nw), h)
        t3 == umul(hi(x, nw), hi(y, nw), h)
        u1 == plus(t1, hi(t0, nw), nw)
        u2 == plus(t2, lo(u1, nw), nw)
        l  == umul_low(u2, t0, nw)
        h_ == plus(plus(t3, hi(u2, nw), nw), hi(u1, nw), nw)
    IN  MakeUint(h_, l, 2 * nw)

\* whether one of the sums t1 + hi(t0), t2 + lo(u1), t3 + hi(u2) + hi(u1)
\* of umul carries out of its type, at this level or in a half product
RECURSIVE umul_carries(_, _, _)
umul_carries(x, y, nw) ==
    IF nw = 1 THEN FALSE
    ELSE
    LET h  == nw \div 2
        t0 == umul(lo(x, nw), lo(y, nw), h)
        t1 == umul(hi(x, nw), lo(y, nw), h)
        t2 == umul(lo(x, nw), hi(y, nw), h)
        t3 == umul(hi(x, nw), hi(y, nw), h)
        c1 == add_with_carry(t1, hi(t0, nw), 0, nw)
        c2 == add_with_carry(t2, lo(c1.value, nw), 0, nw)
        c3 == add_with_carry(t3, hi(c2.value, nw), 0, nw)
        c4 == add_with_carry(c3.value, hi(c1.value, nw), 0, nw)
    IN  \/ c1.carry = 1 \/ c2.carry = 1 \/ c3.carry = 1 \/ c4.carry = 1
        \/ umul_carries(lo(x, nw), lo(y, nw), h)
        \/ umul_carries(hi(x, nw), lo(y, nw), h)
        \/ umul_carries(lo(x, nw), hi(y, nw), h)
        \/ umul_carries(hi(x, nw), hi(y, nw), h)

\* one step of the inner loop of umul_loop / operator*:
\* t = umul(x[i], y[j]) + p[i + j] + k as a two-word value
MulAcc(xi, yj, pij, k) ==
    LET t == (mul_wide(xi, yj) + pij + k) % Mod(NumWords128)
    IN  [lo |-> t % Base, hi |-> t \div Base,
         carries |-> mul_wide(xi, yj) + pij + k >= Mod(NumWords128)]

\* the inner loop of umul_loop for column j, from index i with carry k, ending
\* with pw[j + num_words] = k; ovf tells whether an accumulation overflowed
RECURSIVE umul_loop_inner(_, _, _, _, _, _, _, _)
umul_loop_inner(p, ovf, k, i, j, x, y, nw) ==
    IF i >= nw THEN [pw |-> [p EXCEPT ![j + nw] = k], ovf |-> ovf]
    ELSE LET t == MulAcc(WordAt(x, i), WordAt(y, j), p[i + j], k)
         IN  umul_loop_inner([p EXCEPT ![i + j] = t.lo], ovf \/ t.carries, t.hi,
                             i + 1, j, x, y, nw)

RECURSIVE umul_loop_outer(_, _, _, _, _)
umul_loop_outer(r, j, x, y, nw) ==
    IF j >= nw THEN r
    ELSE umul_loop_outer(umul_loop_inner(r.pw, r.ovf, 0, 0, j, x, y, nw), j + 1, x, y, nw)

\* umul_loop(x, y): the product, and whether an accumulation overflowed
umul_loop_run(x, y, nw) ==
    umul_loop_outer([pw |-> [i \in 0 .. 2 * nw - 1 |-> 0], ovf |-> FALSE], 0, x, y, nw)

umul_loop(x, y, nw) == FromWords(umul_loop_run(x, y, nw).pw, 2 * nw)

\* mul_fold with the carry k of the column left out
mul_fold_no_carry(ptop, xw, yw, k) == (ptop + ((xw * yw) % Base)) % Base

\* p[num_words - 1] += x[num_words - j - 1] * y[j] + k, in one word
mul_fold(ptop, xw, yw, k) == (ptop + ((xw * yw) % Base) + k) % Base

\* operator*: the inner loop for column j runs i over [0, num_words - j - 1)
RECURSIVE mul_inner(_, _, _, _, _, _, _)
mul_inner(p, k, i, j, x, y, nw) ==
    IF i >= nw - j - 1
    THEN [p EXCEPT ![nw - 1] = mul_fold(p[nw - 1], WordAt(x, nw - j - 1), WordAt(y, j), k)]
    ELSE LET t == MulAcc(WordAt(x, i), WordAt(y, j), p[i + j], k)
         IN  mul_inner([p EXCEPT ![i + j] = t.lo], t.hi, i + 1, j, x, y, nw)

RECURSIVE mul_outer(_, _, _, _, _)
mul_outer(p, j, x, y, nw) ==
    IF j >= nw THEN p
    ELSE mul_outer(mul_inner(p, 0, 0, j, x, y, nw), j + 1, x, y, nw)

mul(x, y, nw) ==
    FromWords(mul_outer([i \in 0 .. nw - 1 |-> 0], 0, x, y, nw), nw)

\* operator* of the half type: uint128's own for uint256, operator* above otherwise
mul_half(x, y, h) ==
    IF h <= NumWords128 THEN (x * y) % Mod(h) ELSE mul(x, y, h)

\* sqr without the high half of the square of the low half
sqr_no_carry(x, nw) ==
    LET h  == nw \div 2
        t  == umul(lo(x, nw), lo(x, nw), h)
    IN  MakeUint(shl(mul_half(lo(x, nw), hi(x, nw), h), 1, h), lo(t, nw), nw)

\* sqr(x)
sqr(x, nw) ==
    LET h  == nw \div 2
        t  == umul(lo(x, nw), lo(x, nw), h)
        h_ == plus(shl(mul_half(lo(x, nw), hi(x, nw), h), 1, h), hi(t, nw), h)
    IN  MakeUint(h_, lo(t, nw), nw)

\* the loop of exp
RECURSIVE exp_loop(_, _, _, _)
exp_loop(result, base, exponent, nw) ==
    IF exponent = 0 THEN result
    ELSE LET next == [result   |-> IF BitAnd(exponent, 1) # 0
                                   THEN mul(result, base, nw) ELSE result,
                      base     |-> sqr(base, nw),
                      exponent |-> shr_T(exponent, 1, nw)]
         IN  exp_loop(next.result, next.base, next.exponent, nw)

\* exp with the result starting at base instead of 1
exp_from_base(base, exponent, nw) ==
    IF base = 2 THEN shl_T(1, exponent, nw)
    ELSE exp_loop(base, base, exponent, nw)

\* exp(base, exponent)
exp(base, exponent, nw) ==
    IF base = 2 THEN shl_T(1, exponent, nw)
    ELSE exp_loop(1, base, exponent, nw)

(* ------------------------------------------------------------------ *)
(* Division layer: primitives of int128.hpp                            *)
(* ------------------------------------------------------------------ *)
RECURSIVE BitLen(_)
BitLen(x) == IF x = 0 THEN 0 ELSE 1 + BitLen(x \div 2)

\* clz of a word
clz64(x) == WordBits - BitLen(x)

\* a word (or a two-word value of top word hi) with its top bit set
Normalized(topword) == topword >= Base \div 2

\* udivrem_2by1({uhi, ulo}, d, reciprocal): two words by one, d normalized, uhi < d
udivrem_2by1(uhi, ulo, dd) ==
    [quot |-> (uhi * Base + ulo) \div dd, rem |-> (uhi * Base + ulo) % dd]

\* udivrem_3by2(u2, u1, u0, d, reciprocal): three words by two, d normalized,
\* (u2, u1) < d; the remainder is a two-word value
udivrem_3by2(u2, u1, u0, dd) ==
    [quot |-> ((u2 * Base + u1) * Base + u0) \div dd,
     rem  |-> ((u2 * Base + u1) * Base + u0) % dd]

(* ------------------------------------------------------------------ *)
(* Division layer: memory                                              *)
(*                                                                     *)
(* Each word array is modelled with the cell below it: the numerator   *)
(* un[-1 .. num_words] (un[num_words] is numerator_ex) and the divisor *)
(* vn[-1 .. num_words-1]; v[-1] is the cell below the caller's         *)
(* divisor.  A cell outside the array holds an arbitrary word; an      *)
(* access to it is recorded in oob.                                    *)
(* ------------------------------------------------------------------ *)
InNumerator(i, nw) == 0 <= i /\ i <= nw

InWords(i, nw) == 0 <= i /\ i <= nw - 1

\* the record of an access, when its index is outside the array
OobU(fn, kind, i, nw) == IF InNumerator(i, nw) THEN {} ELSE {<<fn, "u", kind, i>>}

OobD(fn, kind, i, nw) == IF InWords(i, nw) THEN {} ELSE {<<fn, "d", kind, i>>}

OobQ(fn, kind, i, nw) == IF InWords(i, nw) THEN {} ELSE {<<fn, "q", kind, i>>}

OobR(fn, kind, i, nw) == IF InWords(i, nw) THEN {} ELSE {<<fn, "r", kind, i>>}

\* the contents of the cells outside the arrays, before the call
Garbage == [v1 : Word, vn1 : Word, un1 : Word]

NoGarbage == [v1 |-> 0, vn1 |-> 0, un1 |-> 0]

\* how a call ends when an INTX_REQUIRE is false: the assertion aborts a build
\* that checks it, and the behaviour is undefined in a build that does not
Failed(d, name) == [d EXCEPT !.req = @ \cup {name}, !.at = "failed"]

\* a primitive called outside its contract: undefined behaviour
Undefined(d) == [d EXCEPT !.at = "ub"]

(* ------------------------------------------------------------------ *)
(* internal::normalize                                                 *)
(* ------------------------------------------------------------------ *)
\* the count started one word below the top and ended one word early
RECURSIVE count_words_below_top(_, _)
count_words_below_top(x, k) ==
    IF k > 1 /\ WordAt(x, k - 1) = 0 THEN count_words_below_top(x, k - 1) ELSE k - 1

\* for (m = num_words; m > 0 && u[m - 1] == 0; --m);
RECURSIVE count_words(_, _)
count_words(x, k) ==
    IF k > 0 /\ WordAt(x, k - 1) = 0 THEN count_words(x, k - 1) ELSE k

\* the words of x shifted left by s (0 < s < WordBits), x[-1] taken as absent
shift_word(x, i, s) ==
    IF i > 0
    THEN BitOr((WordAt(x, i) * 2 ^ s) % Base, WordAt(x, i - 1) \div 2 ^ (WordBits - s))
    ELSE (WordAt(x, 0) * 2 ^ s) % Base

\* top_word_significant without its second test
top_word_significant_ex_only(un, vn, m, n) == un[m] # 0

\* the test that ends normalize: un[m] != 0 || un[m - 1] >= vn[n - 1]
top_word_significant(un, vn, m, n) == un[m] # 0 \/ un[m - 1] >= vn[n - 1]

normalize(u, v, nw, g) ==
    LET m0  == count_words(u, nw)
        n0  == count_words(v, nw)
        top == IF n0 = 0 THEN g.v1 ELSE WordAt(v, n0 - 1)
        sh  == IF top = 0 THEN 0 ELSE clz64(top)
        vn  == [i \in -1 .. nw - 1 |->
                  IF i = -1 THEN g.vn1
                  ELSE IF sh # 0 THEN shift_word(v, i, sh) ELSE WordAt(v, i)]
        un  == [i \in -1 .. nw |->
                  IF i = -1 THEN g.un1
                  ELSE IF sh = 0 THEN (IF i = nw THEN 0 ELSE WordAt(u, i))
                  ELSE IF i = nw THEN WordAt(u, nw - 1) \div 2 ^ (WordBits - sh)
                  ELSE shift_word(u, i, sh)]
        acc == OobD("normalize", "read", n0 - 1, nw)
               \cup (IF un[m0] # 0 THEN {}
                     ELSE OobU("normalize", "read", m0 - 1, nw)
                          \cup OobD("normalize", "read", n0 - 1, nw))
        base == [nw |-> nw, u |-> u, v |-> v,
                 numerator |-> un, divisor |-> vn,
                 num_numerator_words |-> m0, num_divisor_words |-> n0,
                 shift |-> 0, q |-> [i \in 0 .. nw - 1 |-> 0],
                 rw |-> [i \in 0 .. nw - 1 |-> 0],
                 divisor_top |-> 0,
                 j |-> 0, qhat |-> 0, branch |-> "none", borrow |-> FALSE,
                 quot |-> 0, rem |-> 0,
                 oob |-> OobD("normalize", "read", n0 - 1, nw), req |-> {},
                 at |-> "normalized"]
    IN  IF top = 0
        THEN \* INTX_REQUIRE(x != 0) of clz_nonzero fails
             Failed(base, "clz_nonzero")
        ELSE [base EXCEPT !.shift = sh,
                          !.num_numerator_words =
                              IF top_word_significant(un, vn, m0, n0) THEN m0 + 1 ELSE m0,
                          !.oob = acc]

(* ------------------------------------------------------------------ *)
(* internal::udivrem_by1, internal::udivrem_by2                        *)
(* ------------------------------------------------------------------ *)
\* do { tie(*it, rem) = udivrem_2by1({rem, *it}, d, reciprocal); } while (it-- != &u[0]);
RECURSIVE by1_loop(_, _, _, _)
by1_loop(u, rem, it, dd) ==
    IF rem >= dd THEN [u |-> u, rem |-> rem, ok |-> FALSE]
    ELSE LET x == udivrem_2by1(rem, u[it], dd)
             w == [u EXCEPT ![it] = x.quot]
         IN  IF it = 0 THEN [u |-> w, rem |-> x.rem, ok |-> TRUE]
             ELSE by1_loop(w, x.rem, it - 1, dd)

\* udivrem_by1(as_words(na.numerator), na.num_numerator_words, as_words(na.divisor)[0])
\* and the return {na.numerator, r >> na.shift} of udivrem
udivrem_by1(d) ==
    LET len == d.num_numerator_words
        dd  == d.divisor[0]
        u0  == d.numerator
    IN  IF len < 2 THEN Failed(d, "udivrem_by1")
        ELSE IF ~Normalized(dd) THEN Undefined(d)
        ELSE LET r == by1_loop([u0 EXCEPT ![len - 1] = 0], u0[len - 1], len - 2, dd)
             IN  IF ~r.ok THEN Undefined(d)
                 ELSE [d EXCEPT !.numerator = r.u,
                                !.quot = FromWords(r.u, d.nw),
                                !.rem = r.rem \div 2 ^ d.shift,
                                !.oob = @ \cup OobU("udivrem_by1", "write", len - 1, d.nw),
                                !.branch = "by1",
                                !.at = "done"]

RECURSIVE by2_loop(_, _, _, _)
by2_loop(u, rem, it, dd) ==
    IF rem >= dd THEN [u |-> u, rem |-> rem, ok |-> FALSE]
    ELSE LET x == udivrem_3by2(rem \div Base, rem % Base, u[it], dd)
             w == [u EXCEPT ![it] = x.quot]
         IN  IF it = 0 THEN [u |-> w, rem |-> x.rem, ok |-> TRUE]
             ELSE by2_loop(w, x.rem, it - 1, dd)

\* udivrem_by2(as_words(na.numerator), na.num_numerator_words, {d[1], d[0]})
\* and the return {na.numerator, r >> na.shift} of udivrem
udivrem_by2(d) ==
    LET len == d.num_numerator_words
        dd  == d.divisor[1] * Base + d.divisor[0]
        u0  == d.numerator
    IN  IF len < 3 THEN Failed(d, "udivrem_by2")
        ELSE IF ~Normalized(d.divisor[1]) THEN Undefined(d)
        ELSE LET r == by2_loop([u0 EXCEPT ![len - 1] = 0, ![len - 2] = 0],
                               u0[len - 1] * Base + u0[len - 2], len - 3, dd)
             IN  IF ~r.ok THEN Undefined(d)
                 ELSE [d EXCEPT !.numerator = r.u,
                                !.quot = FromWords(r.u, d.nw),
                                !.rem = shr128(r.rem, d.shift),
                                !.oob = @ \cup OobU("udivrem_by2", "write", len - 1, d.nw),
                                !.branch = "by2",
                                !.at = "done"]

(* ------------------------------------------------------------------ *)
(* internal::add, internal::submul                                     *)
(* ------------------------------------------------------------------ *)
\* add(&u[j], &u[j], d, len): u[j .. j+len-1] += d[0 .. len-1], returns the carry
RECURSIVE add_loop_(_, _, _, _, _, _, _, _)
add_loop_(u, vn, j, i, len, carry, oob, nw) ==
    IF i >= len THEN [u |-> u, carry |-> carry, oob |-> oob]
    ELSE LET a == add_with_carry(u[j + i], vn[i], carry, 1)
         IN  add_loop_([u EXCEPT ![j + i] = a.value], vn, j, i + 1, len, a.carry,
                       oob \cup OobU("add", "write", j + i, nw)
                           \cup OobD("add", "read", i, nw), nw)

\* add that leaves out the carry into the last word
add_carry_dropped(u, vn, j, len, nw) ==
    LET a == add_loop_(u, vn, j, 0, len, 0, {}, nw) IN [a EXCEPT !.carry = 0]

add(u, vn, j, len, nw) == add_loop_(u, vn, j, 0, len, 0, {}, nw)

\* submul(&u[j], &u[j], d, len, multiplier): u[j .. j+len-1] -= multiplier * d[0 .. len-1],
\* returns the borrow
RECURSIVE submul_loop(_, _, _, _, _, _, _, _, _)
submul_loop(u, vn, j, i, len, multiplier, borrow, oob, nw) ==
    IF i >= len THEN [u |-> u, borrow |-> borrow, oob |-> oob]
    ELSE LET s == sub_with_carry(u[j + i], borrow, 0, 1)
             p == mul_wide(vn[i], multiplier)
             t == sub_with_carry(s.value, p % Base, 0, 1)
         IN  submul_loop([u EXCEPT ![j + i] = t.value], vn, j, i + 1, len, multiplier,
                         ((p \div Base) + s.carry + t.carry) % Base,
                         oob \cup OobU("submul", "write", j + i, nw)
                             \cup OobD("submul", "read", i, nw), nw)

submul(u, vn, j, len, multiplier, nw) ==
    submul_loop(u, vn, j, 0, len, multiplier, 0, {}, nw)

(* ------------------------------------------------------------------ *)
(* internal::udivrem_knuth                                             *)
(* ------------------------------------------------------------------ *)
\* the entry of udivrem_knuth(as_words(q), &un[0], m, as_words(na.divisor), n):
\* the two INTX_REQUIREs, divisor = {d[dlen - 1], d[dlen - 2]}, its reciprocal,
\* and j = ulen - dlen - 1
knuth_enter(d) ==
    LET ulen == d.num_numerator_words
        dlen == d.num_divisor_words
    IN  IF dlen < 3 THEN Failed(d, "udivrem_knuth: dlen >= 3")
        ELSE IF ulen < dlen THEN Failed(d, "udivrem_knuth: ulen >= dlen")
        ELSE IF ~Normalized(d.divisor[dlen - 1]) THEN Undefined(d)
        ELSE [d EXCEPT !.divisor_top = d.divisor[dlen - 1] * Base + d.divisor[dlen - 2],
                       !.oob = @ \cup OobD("udivrem_knuth", "read", dlen - 1, d.nw)
                                 \cup OobD("udivrem_knuth", "read", dlen - 2, d.nw),
                       !.j = ulen - dlen - 1,
                       !.at = "knuth"]

\* the overflow branch with the digit one below all-ones
knuth_overflow_digit_below(d) ==
    LET j    == d.j
        dlen == d.num_divisor_words
        u    == d.numerator
        sm   == submul(u, d.divisor, j, dlen, WordMax - 1, d.nw)
    IN  [d EXCEPT !.numerator = [sm.u EXCEPT ![j + dlen] = (u[j + dlen] - sm.borrow) % Base],
                  !.qhat = WordMax - 1,
                  !.branch = "overflow",
                  !.borrow = FALSE,
                  !.oob = @ \cup sm.oob]

\* the branch of an iteration taken when uint128(u2, u1) == divisor
knuth_overflow(d) ==
    LET j    == d.j
        dlen == d.num_divisor_words
        u    == d.numerator
        u2   == u[j + dlen]
        qhat == WordMax
        sm   == submul(u, d.divisor, j, dlen, qhat, d.nw)
    IN  IF dlen < 1 THEN Failed(d, "submul")
        ELSE [d EXCEPT !.numerator = [sm.u EXCEPT ![j + dlen] = (u2 - sm.borrow) % Base],
                       !.qhat = qhat,
                       !.branch = "overflow",
                       !.borrow = FALSE,
                       !.oob = @ \cup sm.oob
                                 \cup OobU("udivrem_knuth", "write", j + dlen, d.nw)]

\* the other branch: the digit of udivrem_3by2 and its correction
knuth_normal(d) ==
    LET j    == d.j
        dlen == d.num_divisor_words
        u    == d.numerator
        u2   == u[j + dlen]
        u1   == u[j + dlen - 1]
        u0   == u[j + dlen - 2]
        x    == udivrem_3by2(u2, u1, u0, d.divisor_top)
        sm   == submul(u, d.divisor, j, dlen - 2, x.quot, d.nw)
        s0   == sub_with_carry(x.rem % Base, sm.borrow, 0, 1)
        s1   == sub_with_carry(x.rem \div Base, s0.carry, 0, 1)
        w    == [sm.u EXCEPT ![j + dlen - 2] = s0.value, ![j + dlen - 1] = s1.value]
        ad   == add(w, d.divisor, j, dlen - 1, d.nw)
        top  == (w[j + dlen - 1] + (d.divisor_top \div Base) + ad.carry) % Base
        acc  == sm.oob \cup OobU("udivrem_knuth", "write", j + dlen - 2, d.nw)
                       \cup OobU("udivrem_knuth", "write", j + dlen - 1, d.nw)
    IN  IF u2 * Base + u1 >= d.divisor_top THEN Undefined(d)
        ELSE IF dlen - 2 < 1 THEN Failed(d, "submul")
        ELSE IF s1.carry = 1
        THEN IF dlen - 1 < 2 THEN Failed(d, "add")
             ELSE [d EXCEPT !.numerator = [ad.u EXCEPT ![j + dlen - 1] = top],
                            !.qhat = (x.quot - 1) % Base,
                            !.branch = "normal",
                            !.borrow = TRUE,
                            !.oob = @ \cup acc \cup ad.oob]
        ELSE [d EXCEPT !.numerator = w,
                       !.qhat = x.quot,
                       !.branch = "normal",
                       !.borrow = FALSE,
                       !.oob = @ \cup acc]

\* one iteration of the loop: for (int j = ulen - dlen - 1; j >= 0; --j)
knuth_iteration(d) ==
    LET j    == d.j
        dlen == d.num_divisor_words
        u    == d.numerator
        r    == IF u[j + dlen] * Base + u[j + dlen - 1] = d.divisor_top
                THEN knuth_overflow(d) ELSE knuth_normal(d)
    IN  IF r.at # "knuth" THEN r
        ELSE [r EXCEPT !.q = [@ EXCEPT ![j] = r.qhat],
                       !.oob = @ \cup OobQ("udivrem_knuth", "write", j, d.nw)
                                 \cup OobU("udivrem_knuth", "read", j + dlen, d.nw)
                                 \cup OobU("udivrem_knuth", "read", j + dlen - 2, d.nw),
                       !.j = j - 1]

(* ------------------------------------------------------------------ *)
(* udivrem                                                             *)
(* ------------------------------------------------------------------ *)
\* rw[i] = na.shift ? (un[i] >> na.shift) | (un[i + 1] << (64 - na.shift)) : un[i]
denormalize_word(un, i, sh) ==
    IF sh # 0
    THEN BitOr(un[i] \div 2 ^ sh, (un[i + 1] * 2 ^ (WordBits - sh)) % Base)
    ELSE un[i]

\* the remainder loop that follows udivrem_knuth, and return {q, r}
denormalize(d) ==
    LET n  == d.num_divisor_words
        un == d.numerator
        rw == [i \in 0 .. d.nw - 1 |->
                 IF i < n - 1 THEN denormalize_word(un, i, d.shift)
                 ELSE IF i = n - 1 THEN un[n - 1] \div 2 ^ d.shift
                 ELSE 0]
    IN  [d EXCEPT !.rw = rw,
                  !.quot = FromWords(d.q, d.nw),
                  !.rem = FromWords(rw, d.nw),
                  !.oob = @ \cup OobR("udivrem", "write", n - 1, d.nw)
                            \cup OobU("udivrem", "read", n - 1, d.nw),
                  !.at = "done"]

\* if (na.num_numerator_words <= na.num_divisor_words) return {0, u};
early_return(d) == [d EXCEPT !.quot = 0, !.rem = d.u, !.branch = "early", !.at = "done"]

\* the step of udivrem that follows state d
udivrem_step(d) ==
    IF d.at = "normalized"
    THEN IF d.num_numerator_words <= d.num_divisor_words THEN early_return(d)
         ELSE IF d.num_divisor_words = 1 THEN udivrem_by1(d)
         ELSE IF d.num_divisor_words = 2 THEN udivrem_by2(d)
         ELSE knuth_enter(d)
    ELSE IF d.at = "knuth"
    THEN IF d.j >= 0 THEN knuth_iteration(d) ELSE denormalize(d)
    ELSE d

RECURSIVE udivrem_run(_)
udivrem_run(d) ==
    IF d.at \in {"done", "failed", "ub"} THEN d ELSE udivrem_run(udivrem_step(d))

\* udivrem(u, v) for u, v of nw words; g is the content of the cells outside the
\* arrays
udivrem(u, v, nw, g) == udivrem_run(normalize(u, v, nw, g))

\* with_signs with the remainder given the sign of the quotient
with_signs_rem_as_quot(quot, rem, q_is_neg, u_is_neg, nw) ==
    [quot |-> IF q_is_neg THEN neg(quot, nw) ELSE quot,
     rem  |-> IF q_is_neg THEN neg(rem, nw) ELSE rem]

\* return {q_is_neg ? -res.quot : res.quot, u_is_neg ? -res.rem : res.rem}
with_signs(quot, rem, q_is_neg, u_is_neg, nw) ==
    [quot |-> IF q_is_neg THEN neg(quot, nw) ELSE quot,
     rem  |-> IF u_is_neg THEN neg(rem, nw) ELSE rem]

\* sdivrem(u, v): the operands' top bits are their signs
sdivrem(u, v, nw, g) ==
    LET sign_mask == shl(1, num_bits(nw) - 1, nw)
        u_is_neg  == BitAnd(u, sign_mask) # 0
        v_is_neg  == BitAnd(v, sign_mask) # 0
        u_abs     == IF u_is_neg THEN neg(u, nw) ELSE u
        v_abs     == IF v_is_neg THEN neg(v, nw) ELSE v
        q_is_neg  == u_is_neg # v_is_neg
        r         == udivrem(u_abs, v_abs, nw, g)
        sr        == with_signs(r.quot, r.rem, q_is_neg, u_is_neg, nw)
    IN  [quot |-> sr.quot, rem |-> sr.rem,
         at   |-> r.at, oob |-> r.oob, req |-> r.req, u_abs |-> u_abs, v_abs |-> v_abs]

(* ------------------------------------------------------------------ *)
(* Modular layer                                                       *)
(* ------------------------------------------------------------------ *)
\* addmod_dividend with the carry dropped
addmod_dividend_no_carry(x, y) == add_with_carry(x, y, 0, NumWords256).value

\* the dividend of addmod: uint512{s.carry, s.value}
addmod_dividend(x, y) ==
    LET s == add_with_carry(x, y, 0, NumWords256)
    IN  MakeUint(s.carry, s.value, NumWords512)

\* addmod(x, y, mod): (uint512{s.carry, s.value} % mod).lo; rem512 is the remainder
\* before its low half is taken
addmod(x, y, mod, g) ==
    LET r == udivrem(addmod_dividend(x, y), mod, NumWords512, g)
    IN  [value |-> lo(r.rem, NumWords512), rem512 |-> r.rem,
         at |-> r.at, oob |-> r.oob, req |-> r.req]

\* mulmod_dividend with the truncated product x * y
mulmod_dividend_truncated(x, y) == mul(x, y, NumWords256)

\* the dividend of mulmod: umul(x, y)
mulmod_dividend(x, y) == umul(x, y, NumWords256)

\* mulmod(x, y, mod): (umul(x, y) % mod).lo
mulmod(x, y, mod, g) ==
    LET r == udivrem(mulmod_dividend(x, y), mod, NumWords512, g)
    IN  [value |-> lo(r.rem, NumWords512), rem512 |-> r.rem,
         at |-> r.at, oob |-> r.oob, req |-> r.req]

(* ------------------------------------------------------------------ *)
(* Serialization                                                       *)
(*                                                                     *)
(* A byte is scaled to one bit, so that a word holds WordBits bytes.   *)
(* Memory is little-endian: byte k of the storage of x is byte k of    *)
(* the value of x.  A byte array of M bytes is a function on 0..M-1.   *)
(* ------------------------------------------------------------------ *)
\* sizeof(word_type)
BytesPerWord == WordBits

Byte == {0, 1}

\* sizeof(uint<N>) = N / 8
num_bytes(nw) == nw * BytesPerWord

\* as_bytes(x): the storage of x seen as bytes
as_bytes(x, nw) == [k \in 0 .. num_bytes(nw) - 1 |-> (x \div 2 ^ k) % 2]

\* the value whose storage is the len bytes of mem
RECURSIVE FromBytes(_, _)
FromBytes(mem, len) ==
    IF len = 0 THEN 0 ELSE mem[len - 1] * 2 ^ (len - 1) + FromBytes(mem, len - 1)

\* bswap of a word: its bytes in the reverse order
bswap64(w) ==
    FromBytes([k \in 0 .. BytesPerWord - 1 |-> (w \div 2 ^ (BytesPerWord - 1 - k)) % 2],
              BytesPerWord)

\* bswap that reverses the words and leaves each word as it is
bswap_words_only(x, nw) ==
    FromWords([i \in 0 .. nw - 1 |-> WordAt(x, nw - 1 - i)], nw)

\* bswap(x): rw[num_words - 1 - i] = bswap(xw[i])
bswap(x, nw) ==
    FromWords([i \in 0 .. nw - 1 |-> bswap64(WordAt(x, nw - 1 - i))], nw)

\* be::load<IntT>(bytes) of an array of M bytes: the bytes are copied to the
\* storage of a zero x from byte N / 8 - M on, and x is byte-swapped
be_load(bytes, M, nw) ==
    LET x == [k \in 0 .. num_bytes(nw) - 1 |->
                 IF k >= num_bytes(nw) - M THEN bytes[k - (num_bytes(nw) - M)] ELSE 0]
    IN  bswap(FromBytes(x, num_bytes(nw)), nw)

\* be::store(dst, x): dst is the storage of bswap(x)
be_store(x, nw) == as_bytes(bswap(x, nw), nw)

(* ------------------------------------------------------------------ *)
(* addmod_daosvik (test/experimental/addmod.hpp)                       *)
(* ------------------------------------------------------------------ *)
\* the guard with the test of the modulus only
daosvik_guard_modulus_only(x, y, m) == WordAt(m, 3) # 0

\* (m[3] != 0) && (x[3] <= m[3]) && (y[3] <= m[3])
daosvik_guard(x, y, m) ==
    /\ WordAt(m, 3) # 0
    /\ WordAt(x, 3) <= WordAt(m, 3)
    /\ WordAt(y, 3) <= WordAt(m, 3)

\* s = sub_with_carry(x, m); if (s.carry) s.value = x;
daosvik_reduce(x, m) ==
    LET s == sub_with_carry(x, m, 0, NumWords256)
    IN  IF s.carry = 1 THEN x ELSE s.value

\* the fast path: the sum of the reduced operands, reduced once more
daosvik_fast(x, y, m) ==
    LET sv == daosvik_reduce(x, m)
        tv == daosvik_reduce(y, m)
        s  == add_with_carry(sv, tv, 0, NumWords256)
        t  == sub_with_carry(s.value, m, 0, NumWords256)
    IN  [value |-> IF s.carry = 1 \/ t.carry = 0 THEN t.value ELSE s.value,
         xr |-> sv, yr |-> tv, fast |-> TRUE]

\* udivrem(n, m).rem for the 5-word n = {s.carry, s.value}
daosvik_wide_rem(n, m) == n % m

\* the other path: n = s.value, n[4] = s.carry, udivrem(n, m).rem
daosvik_slow(x, y, m) ==
    LET s == add_with_carry(x, y, 0, NumWords256)
    IN  [value |-> daosvik_wide_rem(s.carry * Mod(NumWords256) + s.value, m),
         xr |-> x, yr |-> y, fast |-> FALSE]

\* addmod_daosvik(x, y, m)
addmod_daosvik(x, y, m) ==
    IF daosvik_guard(x, y, m) THEN daosvik_fast(x, y, m) ELSE daosvik_slow(x, y, m)

(* ------------------------------------------------------------------ *)
(* shl_loop                                                            *)
(*                                                                     *)
(* num_words - skip is computed in 64-bit unsigned arithmetic, here    *)
(* modulo DistMod.  An access outside words[0 .. num_words-1] or       *)
(* rw[0 .. num_words-1] is undefined behaviour: it is recorded in oob  *)
(* and ends the call in the state "ub", with any value as the result.  *)
(* ------------------------------------------------------------------ *)
\* the iterations i, i + 1, .. of the loop: for (i = 0; i < num_words - skip; ++i)
RECURSIVE shl_loop_from(_, _, _, _, _, _, _, _)
shl_loop_from(rw, carry, i, count, x, s, skip, nw) ==
    IF i >= count THEN [rw |-> rw, oob |-> {}, at |-> "done"]
    ELSE IF ~InWords(i, nw)
    THEN [rw |-> rw, oob |-> {<<"shl_loop", "words", "read", i>>}, at |-> "ub"]
    ELSE IF ~InWords(i + skip, nw)
    THEN [rw |-> rw, oob |-> {<<"shl_loop", "rw", "write", i + skip>>}, at |-> "ub"]
    ELSE LET w == WordAt(x, i)
             v == BitOr((w * 2 ^ s) % Base, carry)
         IN  shl_loop_from([rw EXCEPT ![i + skip] = v],
                           (w \div 2 ^ (WordBits - s - 1)) \div 2,
                           i + 1, count, x, s, skip, nw)

\* shl_loop(x, shift)
shl_loop(x, shift, nw) ==
    LET s    == shift % WordBits
        skip == shift \div WordBits
        r    == shl_loop_from([i \in 0 .. nw - 1 |-> 0], 0, 0, (nw - skip) % DistMod,
                              x, s, skip, nw)
    IN  [value |-> FromWords(r.rw, nw), oob |-> r.oob, at |-> r.at]

(* ------------------------------------------------------------------ *)
(* Inputs                                                              *)
(* ------------------------------------------------------------------ *)
\* the words a sampled operand is made of: the least, one, the top bit, the greatest
WordSample == {0, 1, Base \div 2, WordMax}

\* the operands of nw words whose words are all sampled
Operands(nw) == {FromWords(w, nw) : w \in [0 .. nw - 1 -> WordSample]}

\* operands of num_words 4 spread evenly over the range, 0 and the greatest included
SpreadOperands ==
    {k * ((Mod(NumWords256) - 1) \div SampleSteps) : k \in 0 .. SampleSteps}

\* operands of num_words 8: both halves spread
WideOperands == {h * Mod(NumWords256) + l : h \in SpreadOperands, l \in SpreadOperands}

\* exponents: the least, those next to N, and the greatest
ExpOperands(nw) ==
    {0, 1, 2, 3} \cup {num_bits(nw) - 1, num_bits(nw), num_bits(nw) + 1}
    \cup {Mod(nw) \div 2 - 1, Mod(nw) \div 2, Mod(nw) - 3, Mod(nw) - 2, Mod(nw) - 1}

\* bases: the least, the fast path's 2, the greatest, and operands spread between
ExpBases(nw) ==
    {0, 1, 2, 3, Mod(nw) \div 2, Mod(nw) - 2, Mod(nw) - 1} \cup SpreadOperands

\* shift distances of type uint<N>: below, at and above N, and above the range of
\* a 64-bit distance
WideDistances(nw) ==
    {0, 1, num_bits(nw) - 1, num_bits(nw), num_bits(nw) + 1}
    \cup {DistMod - 1, DistMod, DistMod + 1, DistMod + num_bits(nw) - 1,
          2 * DistMod + 1, Mod(nw) - 1}

\* the cells outside the arrays that a call udivrem(u, v) can read
GarbageFor(u, v) ==
    IF v = 0 THEN Garbage
    ELSE IF u = 0 THEN {[NoGarbage EXCEPT !.un1 = w] : w \in Word}
    ELSE {NoGarbage}

Idle == [at |-> "idle"]

(* ------------------------------------------------------------------ *)
(* udivrem as a process: one action per step of the call               *)
(* ------------------------------------------------------------------ *)
InitDiv ==
    /\ op = "udivrem"
    /\ pc = "start"
    /\ \/ \E u \in Operands(NumWords256), v \in Operands(NumWords256) :
             args = [x |-> u, y |-> v, nw |-> NumWords256]
       \/ \E u \in WideOperands, v \in WideOperands :
             args = [x |-> u, y |-> v, nw |-> NumWords512]
    /\ res = [quot |-> 0, rem |-> 0]
    /\ na = Idle

Normalize ==
    /\ pc = "start"
    /\ op = "udivrem"
    /\ \E g \in GarbageFor(args.x, args.y) :
          na' = normalize(args.x, args.y, args.nw, g)
    /\ pc' = "div"
    /\ UNCHANGED <<op, args, res>>

EarlyReturn ==
    /\ pc = "div"
    /\ na.at = "normalized"
    /\ na.num_numerator_words <= na.num_divisor_words
    /\ na' = early_return(na)
    /\ UNCHANGED <<op, pc, args, res>>

By1 ==
    /\ pc = "div"
    /\ na.at = "normalized"
    /\ na.num_numerator_words > na.num_divisor_words
    /\ na.num_divisor_words = 1
    /\ na' = udivrem_by1(na)
    /\ UNCHANGED <<op, pc, args, res>>

By2 ==
    /\ pc = "div"
    /\ na.at = "normalized"
    /\ na.num_numerator_words > na.num_divisor_words
    /\ na.num_divisor_words = 2
    /\ na' = udivrem_by2(na)
    /\ UNCHANGED <<op, pc, args, res>>

KnuthEnter ==
    /\ pc = "div"
    /\ na.at = "normalized"
    /\ na.num_numerator_words > na.num_divisor_words
    /\ na.num_divisor_words \notin {1, 2}
    /\ na' = knuth_enter(na)
    /\ UNCHANGED <<op, pc, args, res>>

KnuthIteration ==
    /\ pc = "div"
    /\ na.at = "knuth"
    /\ na.j >= 0
    /\ na' = knuth_iteration(na)
    /\ UNCHANGED <<op, pc, args, res>>

Denormalize ==
    /\ pc = "div"
    /\ na.at = "knuth"
    /\ na.j < 0
    /\ na' = denormalize(na)
    /\ UNCHANGED <<op, pc, args, res>>

Return ==
    /\ pc = "div"
    /\ na.at = "done"
    /\ res' = [quot |-> na.quot, rem |-> na.rem]
    /\ pc' = "done"
    /\ UNCHANGED <<op, args, na>>

NextDiv ==
    \/ Normalize
    \/ EarlyReturn
    \/ By1
    \/ By2
    \/ KnuthEnter
    \/ KnuthIteration
    \/ Denormalize
    \/ Return

SpecDiv == InitDiv /\ [][NextDiv]_vars

(* ------------------------------------------------------------------ *)
(* Signed division                                                     *)
(* ------------------------------------------------------------------ *)
InitSdiv ==
    /\ op = "sdivrem"
    /\ pc = "start"
    /\ \E u \in Operands(NumWords256), v \in Operands(NumWords256) \ {0} :
          args = [x |-> u, y |-> v, nw |-> NumWords256]
    /\ res = [quot |-> 0, rem |-> 0]
    /\ na = Idle

Sdivrem ==
    /\ pc = "start"
    /\ op = "sdivrem"
    /\ \E g \in GarbageFor(args.x, args.y) :
          res' = sdivrem(args.x, args.y, args.nw, g)
    /\ pc' = "done"
    /\ UNCHANGED <<op, args, na>>

NextSdiv == Sdivrem

SpecSdiv == InitSdiv /\ [][NextSdiv]_vars

(* ------------------------------------------------------------------ *)
(* Modular layer                                                       *)
(* ------------------------------------------------------------------ *)
InitMod ==
    /\ op \in {"addmod", "mulmod"}
    /\ pc = "start"
    /\ \E x \in SpreadOperands, y \in SpreadOperands, m \in Operands(NumWords256) \ {0} :
          args = [x |-> x, y |-> y, z |-> m, nw |-> NumWords256]
    /\ res = [value |-> 0]
    /\ na = Idle

Addmod ==
    /\ pc = "start"
    /\ op = "addmod"
    /\ \E g \in GarbageFor(addmod_dividend(args.x, args.y), args.z) :
          res' = addmod(args.x, args.y, args.z, g)
    /\ pc' = "done"
    /\ UNCHANGED <<op, args, na>>

Mulmod ==
    /\ pc = "start"
    /\ op = "mulmod"
    /\ \E g \in GarbageFor(mulmod_dividend(args.x, args.y), args.z) :
          res' = mulmod(args.x, args.y, args.z, g)
    /\ pc' = "done"
    /\ UNCHANGED <<op, args, na>>

NextMod ==
    \/ Addmod
    \/ Mulmod

SpecMod == InitMod /\ [][NextMod]_vars

(* ------------------------------------------------------------------ *)
(* Multiplication                                                      *)
(* ------------------------------------------------------------------ *)
InitMul ==
    /\ op \in {"umul", "umul_loop", "mul"}
    /\ pc = "start"
    /\ \E x \in Operands(NumWords256), y \in Operands(NumWords256) :
          args = [x |-> x, y |-> y, nw |-> NumWords256]
    /\ res = [value |-> 0, carries |-> FALSE]
    /\ na = Idle

Umul ==
    /\ pc = "start"
    /\ op = "umul"
    /\ res' = [value |-> umul(args.x, args.y, args.nw),
               carries |-> umul_carries(args.x, args.y, args.nw)]
    /\ pc' = "done"
    /\ UNCHANGED <<op, args, na>>

UmulLoop ==
    /\ pc = "start"
    /\ op = "umul_loop"
    /\ res' = [value |-> umul_loop(args.x, args.y, args.nw),
               carries |-> umul_loop_run(args.x, args.y, args.nw).ovf]
    /\ pc' = "done"
    /\ UNCHANGED <<op, args, na>>

Mul ==
    /\ pc = "start"
    /\ op = "mul"
    /\ res' = [value |-> mul(args.x, args.y, args.nw), carries |-> FALSE]
    /\ pc' = "done"
    /\ UNCHANGED <<op, args, na>>

NextMul ==
    \/ Umul
    \/ UmulLoop
    \/ Mul

SpecMul == InitMul /\ [][NextMul]_vars

(* ------------------------------------------------------------------ *)
(* Shifts                                                              *)
(* ------------------------------------------------------------------ *)
InitShift ==
    /\ pc = "start"
    /\ \/ /\ op \in {"shl_shr", "shr_shl"}
          /\ \E x \in Operands(NumWords256), s \in 0 .. DistMod - 1 :
                args = [x |-> x, s |-> s, nw |-> NumWords256]
       \/ /\ op \in {"shl_T", "shr_T"}
          /\ \E x \in Operands(NumWords256), s \in WideDistances(NumWords256) :
                args = [x |-> x, s |-> s, nw |-> NumWords256]
    /\ res = [first |-> 0, back |-> 0]
    /\ na = Idle

\* (x << s) >> s
ShlShr ==
    /\ pc = "start"
    /\ op = "shl_shr"
    /\ res' = [first |-> shl(args.x, args.s, args.nw),
               back  |-> shr(shl(args.x, args.s, args.nw), args.s, args.nw)]
    /\ pc' = "done"
    /\ UNCHANGED <<op, args, na>>

\* (x >> s) << s
ShrShl ==
    /\ pc = "start"
    /\ op = "shr_shl"
    /\ res' = [first |-> shr(args.x, args.s, args.nw),
               back  |-> shl(shr(args.x, args.s, args.nw), args.s, args.nw)]
    /\ pc' = "done"
    /\ UNCHANGED <<op, args, na>>

\* x << s for s of type uint<N>
ShlT ==
    /\ pc = "start"
    /\ op = "shl_T"
    /\ res' = [first |-> shl_T(args.x, args.s, args.nw), back |-> 0]
    /\ pc' = "done"
    /\ UNCHANGED <<op, args, na>>

\* x >> s for s of type uint<N>
ShrT ==
    /\ pc = "start"
    /\ op = "shr_T"
    /\ res' = [first |-> shr_T(args.x, args.s, args.nw), back |-> 0]
    /\ pc' = "done"
    /\ UNCHANGED <<op, args, na>>

NextShift ==
    \/ ShlShr
    \/ ShrShl
    \/ ShlT
    \/ ShrT

SpecShift == InitShift /\ [][NextShift]_vars

(* ------------------------------------------------------------------ *)
(* Exponentiation                                                      *)
(* ------------------------------------------------------------------ *)
InitExp ==
    /\ op = "exp_sum"
    /\ pc = "start"
    /\ \E a \in ExpBases(NumWords256), m \in ExpOperands(NumWords256),
          n \in ExpOperands(NumWords256) :
          args = [x |-> a, y |-> m, z |-> n, nw |-> NumWords256]
    /\ res = [sum |-> 0, em |-> 0, en |-> 0, prod |-> 0]
    /\ na = Idle

\* exp(a, m + n) and exp(a, m) * exp(a, n)
ExpSum ==
    /\ pc = "start"
    /\ op = "exp_sum"
    /\ LET em == exp(args.x, args.y, args.nw)
           en == exp(args.x, args.z, args.nw)
       IN  res' = [sum  |-> exp(args.x, plus(args.y, args.z, args.nw), args.nw),
                   em   |-> em,
                   en   |-> en,
                   prod |-> mul(em, en, args.nw)]
    /\ pc' = "done"
    /\ UNCHANGED <<op, args, na>>

NextExp == ExpSum

SpecExp == InitExp /\ [][NextExp]_vars

(* ------------------------------------------------------------------ *)
(* Serialization                                                       *)
(* ------------------------------------------------------------------ *)
\* byte arrays of 1 to N / 8 bytes
ByteArrays(nw) ==
    UNION {{[m |-> M, bytes |-> b] : b \in [0 .. M - 1 -> Byte]} : M \in 1 .. num_bytes(nw)}

InitBytes ==
    /\ pc = "start"
    /\ \/ /\ op = "be_load"
          /\ \E a \in ByteArrays(NumWords256) :
                args = [bytes |-> a.bytes, m |-> a.m, nw |-> NumWords256]
       \/ /\ op \in {"be_store", "bswap"}
          /\ \E x \in Operands(NumWords256) \cup SpreadOperands :
                args = [x |-> x, nw |-> NumWords256]
    /\ res = [value |-> 0]
    /\ na = Idle

\* be::load<uint<N>>(bytes)
BeLoad ==
    /\ pc = "start"
    /\ op = "be_load"
    /\ res' = [value |-> be_load(args.bytes, args.m, args.nw)]
    /\ pc' = "done"
    /\ UNCHANGED <<op, args, na>>

\* be::store(dst, x), then be::load<uint<N>>(dst)
BeStore ==
    /\ pc = "start"
    /\ op = "be_store"
    /\ LET dst == be_store(args.x, args.nw)
       IN  res' = [value |-> be_load(dst, num_bytes(args.nw), args.nw), bytes |-> dst]
    /\ pc' = "done"
    /\ UNCHANGED <<op, args, na>>

\* bswap(x), then bswap of the result
Bswap ==
    /\ pc = "start"
    /\ op = "bswap"
    /\ LET once == bswap(args.x, args.nw)
       IN  res' = [value |-> bswap(once, args.nw), once |-> once]
    /\ pc' = "done"
    /\ UNCHANGED <<op, args, na>>

NextBytes ==
    \/ BeLoad
    \/ BeStore
    \/ Bswap

SpecBytes == InitBytes /\ [][NextBytes]_vars

(* ------------------------------------------------------------------ *)
(* Comparisons                                                         *)
(* ------------------------------------------------------------------ *)
InitCmp ==
    /\ op = "compare"
    /\ pc = "start"
    /\ \E x \in Operands(NumWords256), y \in Operands(NumWords256) :
          args = [x |-> x, y |-> y, nw |-> NumWords256]
    /\ res = [lt |-> FALSE, eq |-> FALSE, gt |-> FALSE, ge |-> FALSE, le |-> FALSE]
    /\ na = Idle

\* x < y, x == y, x > y, x >= y, x <= y
Compare ==
    /\ pc = "start"
    /\ op = "compare"
    /\ res' = [lt |-> Lt(args.x, args.y, args.nw),
               eq |-> Eq(args.x, args.y, args.nw),
               gt |-> Gt(args.x, args.y, args.nw),
               ge |-> Ge(args.x, args.y, args.nw),
               le |-> Le(args.x, args.y, args.nw)]
    /\ pc' = "done"
    /\ UNCHANGED <<op, args, na>>

NextCmp == Compare

SpecCmp == InitCmp /\ [][NextCmp]_vars

(* ------------------------------------------------------------------ *)
(* addmod_daosvik beside addmod                                        *)
(* ------------------------------------------------------------------ *)
\* moduli: spread over the range, and those next to the top word's boundaries
DaosvikModuli ==
    (SpreadOperands \cup {1, 2, Mod(NumWords256) \div Base - 1, Mod(NumWords256) \div Base,
                          Mod(NumWords256) \div Base + 1, Mod(NumWords256) \div 2 - 1,
                          Mod(NumWords256) \div 2, Mod(NumWords256) \div 2 + 1,
                          Mod(NumWords256) - 2, Mod(NumWords256) - 1}) \ {0}

\* second operands: spread over the range, and those next to the modulus
DaosvikSecond(m) ==
    SpreadOperands \cup ({m - 1, m, m + 1, 2 * m - 1, 2 * m} \cap (0 .. Mod(NumWords256) - 1))

InitDaosvik ==
    /\ op = "addmod_daosvik"
    /\ pc = "start"
    /\ \E m \in DaosvikModuli :
          \E x \in Operands(NumWords256), y \in DaosvikSecond(m) :
             args = [x |-> x, y |-> y, z |-> m, nw |-> NumWords256]
    /\ res = [value |-> 0]
    /\ na = Idle

\* addmod_daosvik(x, y, m), and addmod(x, y, m)
AddmodDaosvik ==
    /\ pc = "start"
    /\ op = "addmod_daosvik"
    /\ \E g \in GarbageFor(addmod_dividend(args.x, args.y), args.z) :
          res' = [value |-> addmod_daosvik(args.x, args.y, args.z).value,
                  daosvik |-> addmod_daosvik(args.x, args.y, args.z),
                  addmod |-> addmod(args.x, args.y, args.z, g)]
    /\ pc' = "done"
    /\ UNCHANGED <<op, args, na>>

NextDaosvik == AddmodDaosvik

SpecDaosvik == InitDaosvik /\ [][NextDaosvik]_vars

(* ------------------------------------------------------------------ *)
(* shl_loop beside operator<<                                          *)
(* ------------------------------------------------------------------ *)
InitShlLoop ==
    /\ op = "shl_loop"
    /\ pc = "start"
    /\ \E x \in Operands(NumWords256), s \in 0 .. DistMod - 1 :
          args = [x |-> x, y |-> s, nw |-> NumWords256]
    /\ res = [value |-> 0, shl |-> 0, oob |-> {}, at |-> "idle"]
    /\ na = Idle

\* shl_loop(x, s) returns; after undefined behaviour any value can be the result
ShlLoop ==
    /\ pc = "start"
    /\ op = "shl_loop"
    /\ LET r == shl_loop(args.x, args.y, args.nw)
       IN  \E v \in IF r.at = "ub" THEN SpreadOperands ELSE {r.value} :
              res' = [value |-> v, shl |-> shl(args.x, args.y, args.nw),
                      oob |-> r.oob, at |-> r.at]
    /\ pc' = "done"
    /\ UNCHANGED <<op, args, na>>

NextShlLoop == ShlLoop

SpecShlLoop == InitShlLoop /\ [][NextShlLoop]_vars

(* ------------------------------------------------------------------ *)
(* Properties                                                          *)
(* ------------------------------------------------------------------ *)
\* the call udivrem(args.x, args.y) has returned
DivReturned == op = "udivrem" /\ pc = "done"

\* C1: for every a and every b # 0 of the same width, udivrem(a, b) returns (q, r)
\* with r < b and umul(q, b) + r equal to a, that is q = floor(a / b) and
\* r = a mod b, on every path of udivrem; no step of the call fails an
\* INTX_REQUIRE or calls a primitive outside its contract.
C1_UdivremExact ==
    (op = "udivrem" /\ args.y # 0) =>
        /\ na.at \notin {"failed", "ub"}
        /\ pc = "done" =>
              /\ res.rem < args.y
              /\ umul(res.quot, args.y, args.nw) + res.rem = args.x
              /\ res.quot = args.x \div args.y
              /\ res.rem = args.x % args.y

\* a call that took the 2-word path with a divisor of exactly 2 words of
\* significant bits and returned a quotient and a remainder that are not 0
C1_Witness ==
    /\ DivReturned
    /\ na.branch = "by2"
    /\ na.shift = 0
    /\ BitLen(args.y) = num_bits(NumWords128)
    /\ res.quot > 1
    /\ res.rem # 0

\* C2: udivrem(u, 0) reads and writes no word outside its arrays, and does
\* nothing undefined.
C2_ZeroDivisorInBounds ==
    (op = "udivrem" /\ args.y = 0 /\ pc # "start") =>
        /\ na.oob = {}
        /\ na.at # "ub"

\* C3: for every x, y and every m # 0, addmod(x, y, m) is (x + y) mod m for the
\* unbounded sum x + y: the dividend keeps the carry of add_with_carry(x, y) as its
\* next higher word.
C3_AddmodExact ==
    (op = "addmod" /\ pc = "done") =>
        /\ res.at = "done"
        /\ addmod_dividend(args.x, args.y) = args.x + args.y
        /\ res.value = (args.x + args.y) % args.z

\* an addmod whose sum carries out of 256 bits, and whose result is not what the
\* truncated sum gives
C3_Witness ==
    /\ op = "addmod"
    /\ pc = "done"
    /\ args.x + args.y >= Mod(NumWords256)
    /\ res.value # ((args.x + args.y) % Mod(NumWords256)) % args.z

\* C4: for every x, y and every m # 0, mulmod(x, y, m) is (x * y) mod m for the
\* full product x * y; the 512-bit remainder is below 2^256, so that its low half
\* is all of it.
C4_MulmodExact ==
    (op = "mulmod" /\ pc = "done") =>
        /\ res.at = "done"
        /\ res.rem512 < Mod(NumWords256)
        /\ res.value = (args.x * args.y) % args.z

\* a mulmod whose product does not fit 256 bits, and whose result is not what
\* the truncated product gives
C4_Witness ==
    /\ op = "mulmod"
    /\ pc = "done"
    /\ args.x * args.y >= Mod(NumWords256)
    /\ res.value # ((args.x * args.y) % Mod(NumWords256)) % args.z

\* C5: for all x, y, umul(x, y) and umul_loop(x, y) return the same value, the
\* exact product x * y, and none of their intermediate sums overflows its type.
C5_UmulEqualsLoop ==
    /\ (op = "umul" /\ pc = "done") =>
          /\ res.value = umul_loop(args.x, args.y, args.nw)
          /\ res.value = args.x * args.y
          /\ ~res.carries
    /\ (op = "umul_loop" /\ pc = "done") =>
          /\ res.value = umul(args.x, args.y, args.nw)
          /\ res.value = args.x * args.y
          /\ ~res.carries

\* umul of the two greatest operands: every partial product is the greatest
C5_Witness ==
    /\ op = "umul"
    /\ pc = "done"
    /\ args.x = Mod(args.nw) - 1
    /\ args.y = Mod(args.nw) - 1
    /\ res.value = (Mod(args.nw) - 1) * (Mod(args.nw) - 1)

\* C6: for all a, b, the truncated product a * b is the low N bits of umul(a, b).
C6_MulIsLowHalfOfUmul ==
    (op = "mul" /\ pc = "done") =>
        res.value = lo(umul(args.x, args.y, args.nw), 2 * args.nw)

\* a truncated product of operands with all words set, whose full product has
\* a high half that is not 0
C6_Witness ==
    /\ op = "mul"
    /\ pc = "done"
    /\ args.x = Mod(args.nw) - 1
    /\ args.y = Mod(args.nw) - 2
    /\ hi(umul(args.x, args.y, args.nw), 2 * args.nw) # 0
    /\ res.value = 2

\* C7: for every x and every distance s < N, (x << s) >> s is x with its top s
\* bits cleared and (x >> s) << s is x with its bottom s bits cleared.
C7_ShiftRoundTrip ==
    (pc = "done" /\ op \in {"shl_shr", "shr_shl"} /\ args.s < num_bits(args.nw)) =>
        IF op = "shl_shr"
        THEN res.back = args.x % 2 ^ (num_bits(args.nw) - args.s)
        ELSE res.back = args.x - (args.x % 2 ^ args.s)

\* a round trip by a distance above N/2 that is no multiple of the word width,
\* which cleared some bits of x and kept others
C7_Witness ==
    /\ pc = "done"
    /\ op = "shl_shr"
    /\ args.s > num_bits(args.nw) \div 2
    /\ args.s < num_bits(args.nw)
    /\ args.s % WordBits # 0
    /\ res.back # 0
    /\ res.back # args.x

\* C8: x << s and x >> s are 0 for every distance s >= N, for a 64-bit distance
\* and for a distance of type uint<N>, also when the low 64 bits of the distance
\* are below N.
C8_ShiftByWidthIsZero ==
    (pc = "done" /\ op \in {"shl_shr", "shr_shl", "shl_T", "shr_T"}
        /\ args.s >= num_bits(args.nw)) => res.first = 0

\* x << (2^64 + 1) for an odd x: the low 64 bits of the distance are 1
C8_Witness ==
    /\ pc = "done"
    /\ op = "shl_T"
    /\ args.s = DistMod + 1
    /\ CastU64(args.s) < num_bits(args.nw)
    /\ args.x % 2 = 1
    /\ res.first = 0

\* the top bit of a value of nw words
SignBit(x, nw) == x \div (Mod(nw) \div 2)

\* C9: for all u and all v # 0, with (q, r) = sdivrem(u, v): q * v + r = u modulo
\* 2^N, and r is 0 or has the top bit of u.
C9_SdivremIdentity ==
    (op = "sdivrem" /\ pc = "done" /\ args.y # 0) =>
        /\ res.at = "done"
        /\ (res.quot * args.y + res.rem) % Mod(args.nw) = args.x
        /\ res.rem = 0 \/ SignBit(res.rem, args.nw) = SignBit(args.x, args.nw)

\* the most negative value divided by minus one
C9_Witness ==
    /\ op = "sdivrem"
    /\ pc = "done"
    /\ args.x = Mod(args.nw) \div 2
    /\ args.y = Mod(args.nw) - 1
    /\ res.quot = Mod(args.nw) \div 2
    /\ res.rem = 0

\* C10, as claimed: for all a, m, n, exp(a, m + n) = exp(a, m) * exp(a, n), with
\* the library's + and * on uint<N>.
C10_ExpOfSum ==
    (op = "exp_sum" /\ pc = "done") => res.sum = res.prod

\* C10, amended: exp(a, m + n) = exp(a, m) * exp(a, n) for all a, m, n such that
\* m + n does not wrap around 2^N, and for every odd a.
C10_ExpOfSumNoWrap ==
    (op = "exp_sum" /\ pc = "done"
        /\ (args.y + args.z < Mod(args.nw) \/ args.x % 2 = 1)) => res.sum = res.prod

\* a power of 3 with both exponents positive and a sum that does not wrap
C10_Witness ==
    /\ op = "exp_sum"
    /\ pc = "done"
    /\ args.x = 3
    /\ args.y = 2
    /\ args.z = 3
    /\ res.sum = 243
    /\ res.prod = 243

\* base^e modulo 2^N, by e = 2 * (e div 2) + e mod 2
RECURSIVE PowMod(_, _, _)
PowMod(b, e, nw) ==
    IF e = 0 THEN 1 % Mod(nw)
    ELSE LET h == PowMod(b, e \div 2, nw)
         IN  (((h * h) % Mod(nw)) * (IF e % 2 = 1 THEN b ELSE 1)) % Mod(nw)

\* C11: for every base and every exponent e, exp(base, e) is base^e mod 2^N, by
\* the loop for base # 2 and by the fast path 1 << e for base = 2, which gives 1
\* for e = 0 and 0 for every e >= N.
C11_ExpIsPower ==
    (op = "exp_sum" /\ pc = "done") =>
        /\ res.em = PowMod(args.x, args.y, args.nw)
        /\ res.en = PowMod(args.x, args.z, args.nw)
        /\ res.sum = PowMod(args.x, (args.y + args.z) % Mod(args.nw), args.nw)
        /\ args.x = 2 =>
              /\ args.y = 0 => res.em = 1
              /\ args.y >= num_bits(args.nw) => res.em = 0
              /\ args.y < num_bits(args.nw) => res.em = 2 ^ args.y

\* the fast path of base 2 with an exponent of N, which gives 0, and with an
\* exponent of N - 1, which gives the top bit
C11_Witness ==
    /\ op = "exp_sum"
    /\ pc = "done"
    /\ args.x = 2
    /\ args.y = num_bits(args.nw)
    /\ args.z = num_bits(args.nw) - 1
    /\ res.em = 0
    /\ res.en = Mod(args.nw) \div 2

\* the integer that len bytes denote in big-endian order
RECURSIVE BigEndianValue(_, _)
BigEndianValue(bytes, len) ==
    IF len = 0 THEN 0 ELSE bytes[len - 1] + 2 * BigEndianValue(bytes, len - 1)

\* C12: be::load of M <= N / 8 bytes returns the integer the bytes denote in
\* big-endian order, be::store writes the N / 8 bytes of x in big-endian order,
\* be::load(be::store(x)) = x and bswap(bswap(x)) = x.
C12_BigEndianRoundTrip ==
    /\ (op = "be_load" /\ pc = "done") =>
           res.value = BigEndianValue(args.bytes, args.m)
    /\ (op = "be_store" /\ pc = "done") =>
           /\ DOMAIN res.bytes = 0 .. num_bytes(args.nw) - 1
           /\ BigEndianValue(res.bytes, num_bytes(args.nw)) = args.x
           /\ res.value = args.x
    /\ (op = "bswap" /\ pc = "done") => res.value = args.x

\* a load of an array shorter than N / 8 bytes whose bytes are not a palindrome
C12_Witness ==
    /\ op = "be_load"
    /\ pc = "done"
    /\ args.m = 3
    /\ args.bytes = [k \in 0 .. 2 |-> IF k = 2 THEN 0 ELSE 1]
    /\ res.value = 6

\* C13: for every pair x, y exactly one of x < y, x == y, x > y holds, x >= y is
\* the negation of x < y and x <= y the negation of x > y; each agrees with the
\* order of the values.
C13_Trichotomy ==
    (op = "compare" /\ pc = "done") =>
        /\ Cardinality({c \in {"lt", "eq", "gt"} : res[c]}) = 1
        /\ res.ge = ~res.lt
        /\ res.le = ~res.gt
        /\ res.lt = (args.x < args.y)
        /\ res.eq = (args.x = args.y)
        /\ res.gt = (args.x > args.y)

\* a pair that differs in the high half only, the greater operand first
C13_Witness ==
    /\ op = "compare"
    /\ pc = "done"
    /\ hi(args.x, args.nw) > hi(args.y, args.nw)
    /\ lo(args.x, args.nw) = lo(args.y, args.nw)
    /\ lo(args.x, args.nw) # 0
    /\ res.gt
    /\ ~res.lt
    /\ ~res.eq

\* the value of the len words u[j .. j+len-1]
Window(u, j, len) == FromWords([i \in 0 .. len - 1 |-> u[j + i]], len)

\* the normalized divisor of the call, as a value
DivisorValue(d) == FromWords(d.divisor, d.num_divisor_words)

\* the call is in the loop of udivrem_knuth with an iteration to run, v # 0
KnuthIterates == op = "udivrem" /\ args.y # 0 /\ na.at = "knuth" /\ na.j >= 0

\* the top two words of the current window equal the top two divisor words
TopWordsEqual ==
    LET n == na.num_divisor_words
    IN  na.numerator[na.j + n] * Base + na.numerator[na.j + n - 1] = na.divisor_top

\* an iteration that starts with the top two words of the window equal to the top
\* two divisor words takes the digit all-ones, leaves u[j + n] = 0 and the n
\* words u[j .. j+n-1] below the divisor, and the digit is exact
OverflowDigitExact ==
    (KnuthIterates /\ TopWordsEqual) =>
        LET j == na.j
            n == na.num_divisor_words
        IN  /\ na'.at = "knuth"
            /\ na'.branch = "overflow"
            /\ na'.qhat = WordMax
            /\ na'.q[j] = WordMax
            /\ na'.numerator[j + n] = 0
            /\ Window(na'.numerator, j, n) < DivisorValue(na)
            /\ Window(na.numerator, j, n + 1)
                   = WordMax * DivisorValue(na) + Window(na'.numerator, j, n)

\* C14: in udivrem_knuth, whenever the top two words of the numerator window
\* equal the top two divisor words, the digit all-ones is exact with no correction:
\* after the subtraction u[j + n] is 0 and u[j .. j+n-1] is below the divisor, for
\* every window reached from udivrem with v # 0.
C14_OverflowBranchExact == [][OverflowDigitExact]_vars

\* an iteration has taken the overflow branch and left a partial remainder that
\* is not 0
C14_Witness ==
    /\ op = "udivrem"
    /\ args.y # 0
    /\ na.at = "knuth"
    /\ na.branch = "overflow"
    /\ na.qhat = WordMax
    /\ na.num_divisor_words >= 3
    /\ Window(na.numerator, na.j + 1, na.num_divisor_words) # 0

\* an iteration that starts with the top two words of the window different from
\* the top two divisor words: the digit of udivrem_3by2 is kept when the subtraction
\* does not borrow and is decremented once when it does, and either way the n
\* words u[j .. j+n-1] are below the divisor and the digit stored is exact
NormalDigitExact ==
    (KnuthIterates /\ ~TopWordsEqual) =>
        LET j    == na.j
            n    == na.num_divisor_words
            u    == na.numerator
            x    == udivrem_3by2(u[j + n], u[j + n - 1], u[j + n - 2], na.divisor_top)
        IN  /\ na'.at = "knuth"
            /\ na'.branch = "normal"
            /\ na'.qhat = x.quot - (IF na'.borrow THEN 1 ELSE 0)
            /\ na'.q[j] = na'.qhat
            /\ Window(na'.numerator, j, n) < DivisorValue(na)
            /\ Window(u, j, n + 1)
                   = na'.qhat * DivisorValue(na) + Window(na'.numerator, j, n)

\* C15: in the non-overflow branch of every iteration of udivrem_knuth the trial
\* digit of udivrem_3by2 is too large by at most one: one decrement and one
\* add-back when the subtraction borrows, none when it does not, leave the partial
\* remainder u[j .. j+n-1] in [0, d) and q[j] the exact digit.
C15_NormalBranchCorrectedOnce == [][NormalDigitExact]_vars

\* an iteration has taken the normal branch, its subtraction borrowed, and the
\* digit was decremented and the divisor added back
C15_Witness ==
    /\ op = "udivrem"
    /\ args.y # 0
    /\ na.at = "knuth"
    /\ na.branch = "normal"
    /\ na.borrow
    /\ na.qhat > 0
    /\ Window(na.numerator, na.j + 1, na.num_divisor_words) # 0

\* C16: for all x, y and every m # 0, addmod_daosvik(x, y, m) returns the value
\* of addmod(x, y, m); on its fast path one conditional subtraction of m brings
\* each of x and y below m and one more brings their sum below m.
C16_DaosvikEqualsAddmod ==
    (op = "addmod_daosvik" /\ pc = "done") =>
        /\ res.addmod.at = "done"
        /\ res.value = res.addmod.value
        /\ res.value = (args.x + args.y) % args.z
        /\ res.daosvik.fast =>
              /\ res.daosvik.xr < args.z
              /\ res.daosvik.yr < args.z
              /\ res.value < args.z

\* a call on the fast path with both operands above the modulus and a sum of the
\* reduced operands that needs the last subtraction
C16_Witness ==
    /\ op = "addmod_daosvik"
    /\ pc = "done"
    /\ res.daosvik.fast
    /\ args.x > args.z
    /\ args.y > args.z
    /\ res.daosvik.xr + res.daosvik.yr > args.z
    /\ res.value # 0

\* C17: for every u and every v # 0, every INTX_REQUIRE reached from udivrem(u, v)
\* holds: clz_nonzero gets a top divisor word that is not 0, udivrem_by1 gets
\* len >= 2, udivrem_by2 len >= 3, udivrem_knuth dlen >= 3 and ulen >= dlen, add
\* len >= 2 and submul len >= 1.
C17_RequiresHold ==
    (op = "udivrem" /\ args.y # 0 /\ na.at # "idle") =>
        LET m == na.num_numerator_words
            n == na.num_divisor_words
        IN  /\ na.at # "failed"
            /\ na.req = {}
            /\ n >= 1
            /\ WordAt(args.y, n - 1) # 0
            /\ (na.at = "normalized" /\ m > n /\ n = 1) => m >= 2
            /\ (na.at = "normalized" /\ m > n /\ n = 2) => m >= 3
            /\ (na.at = "normalized" /\ m > n /\ n > 2) => (n >= 3 /\ m >= n)
            /\ (na.at = "knuth" /\ na.j >= 0) =>
                  /\ n >= 1
                  /\ n - 2 >= 1
                  /\ n - 1 >= 2

\* a call of 8 words has returned from udivrem_knuth after an iteration that
\* called submul and add
C17_Witness ==
    /\ DivReturned
    /\ args.nw = NumWords512
    /\ args.y # 0
    /\ na.num_divisor_words >= 3
    /\ na.branch = "normal"
    /\ na.borrow
    /\ na.req = {}

\* the accesses outside the arrays that normalize made
NormalizeOob == {a \in na.oob : a[1] = "normalize"}

\* C18: for every u, u = 0 included, and every v # 0, normalize reads and writes
\* numerator words at indices 0 .. num_words only and divisor words at indices
\* 0 .. num_words - 1 only; its last test never reads un[m - 1] with m - 1 = -1.
C18_NormalizeInBounds ==
    (op = "udivrem" /\ args.y # 0 /\ na.at # "idle") => NormalizeOob = {}

\* C19: for every x and every 64-bit distance s, shl_loop(x, s) returns the value
\* of x << s, which is 0 for every s >= N, and writes no result word at an index
\* of num_words or more.
C19_ShlLoopEqualsShl ==
    (op = "shl_loop" /\ pc = "done") =>
        /\ res.at = "done"
        /\ res.oob = {}
        /\ res.value = res.shl
        /\ args.y >= num_bits(args.nw) => res.value = 0

====
